---- MODULE Spec2Model ----
\* Verification model of Distill-Factory's chat layer:
\*   distillr1/chat/chat_model.py   ChatModel (sync/async facade, background loop)
\*   distillr1/chat/vllm_engine.py  VllmEngine (_generate, chat, stream_chat)
\*   distillr1/distill/run_exp.py   run_exp
\*
\* Five specifications share the module's variables:
\*   Spec          the ChatModel facade with concurrent callers
\*   SpecErr       the facade's error paths with one caller of each kind, and run_exp
\*   SpecChat      VllmEngine.chat consuming the engine's generator
\*   SpecStream    VllmEngine.stream_chat consuming the engine's generator
\*   SpecSampling  the sampling parameters VllmEngine._generate resolves
EXTENDS Integers, Sequences, FiniteSets, TLC

VARIABLES
    \* ---- ChatModel facade (chat_model.py)
    selfLoop,      \* self._loop: the loop the ChatModel holds
    loops,         \* every event loop created so far
    loopRunning,   \* the background thread has entered loop.run_forever()
    pc,            \* per caller: "idle", "blocked" (sync), "awaiting" (async), "returned", "raised"
    method,        \* per caller: the method of its current/last call
    req,           \* per caller: the request of its current/last call
    ncalls,        \* per caller: calls started
    ret,           \* per caller: what the last call gave back (value or exception)
    task,          \* per caller: the achat coroutine of its current call
    fut,           \* per slot: the concurrent future run_coroutine_threadsafe returned
    engine,        \* per caller: the engine's record of the request of its current call
    \* ---- run_exp (run_exp.py)
    runExp,
    \* ---- VllmEngine.chat / stream_chat (vllm_engine.py)
    vpc,           \* position of the coroutine / async generator
    kwargs,        \* the per-call keyword arguments (input_kwargs)
    genArgs,       \* self.generating_args
    sampling,      \* the SamplingParams built by _generate
    nYielded,      \* outputs the engine's generator has yielded so far
    lastYielded,   \* the generator's most recent output
    final_output,  \* chat: local variable final_output
    results,       \* chat: the returned list of Response records
    raised,        \* the exception the coroutine ended with ("None" when none)
    generated_text,\* stream_chat: local variable generated_text
    deltas,        \* stream_chat: the deltas yielded so far, in order
    extending      \* every output so far extended its predecessor's outputs[0].text

facadeVars == <<selfLoop, loops, loopRunning, pc, method, req, ncalls, ret, task, fut, engine>>
engineVars == <<vpc, kwargs, genArgs, sampling, nYielded, lastYielded, final_output,
                results, raised, generated_text, deltas, extending>>
vars == <<selfLoop, loops, loopRunning, pc, method, req, ncalls, ret, task, fut, engine,
          runExp, vpc, kwargs, genArgs, sampling, nYielded, lastYielded, final_output,
          results, raised, generated_text, deltas, extending>>

None == "None"

\* ------------------------------------------------------------------ bounds
MaxCalls == 2        \* calls each caller makes
MaxNum == 1          \* sampling values are 0..MaxNum
MaxOutputs == 3      \* outputs the engine's generator yields for one request
MaxTextLen == 2      \* characters of a completion's text
MaxTok == 1          \* token ids of a completion
MaxPrompt == 1       \* prompt token ids of a request

\* ------------------------------------------------------------------ facade
SyncThreads == {"t1", "t2"}     \* threads calling ChatModel.chat()
AsyncCallers == {"a1"}          \* coroutines awaiting ChatModel.achat() directly
Callers == SyncThreads \cup AsyncCallers
Requests == {"q1", "q2"}        \* (messages, system, tools, ..., input_kwargs)

InitLoop == "loop0"             \* the loop asyncio.new_event_loop() returns in __init__
UserLoop == "userloop"          \* the loop of a coroutine that awaits achat() itself
BgThread == "bg"                \* the daemon thread started in __init__

\* What engine.chat can end with: a list of Responses, or an exception.
ResponseLists == {<<>>, <<"r1", "r2">>}
Exceptions == {<<"RuntimeError">>, <<"ValueError">>}
Ok(v) == [kind |-> "ok", val |-> v]
Exc(e) == [kind |-> "exc", val |-> e]
NoOutcome == [kind |-> "none", val |-> <<>>]
EngineOutcomes == {Ok(v) : v \in ResponseLists} \cup {Exc(e) : e \in Exceptions}

\* The methods class ChatModel defines, and those its docstring lists.
ChatModelMethods == {"chat", "achat"}
DocumentedSync == {"chat", "stream_chat", "get_scores"}
DocumentedAsync == {"achat", "astream_chat", "aget_scores"}
AsyncOf(m) == CASE m = "chat" -> "achat"
                [] m = "stream_chat" -> "astream_chat"
                [] m = "get_scores" -> "aget_scores"
                [] OTHER -> m

NoTask == [st |-> "none", loop |-> None, ranOn |-> None, slot |-> None, engineCalls |-> 0]
NoFuture == [done |-> FALSE, outcome |-> NoOutcome, by |-> None]
EngineIdle == [st |-> "idle", req |-> None, out |-> NoOutcome]

InitFacade ==
    /\ selfLoop = InitLoop
    /\ loops = {InitLoop}
    /\ loopRunning = FALSE
    /\ pc = [c \in Callers |-> "idle"]
    /\ method = [c \in Callers |-> None]
    /\ req = [c \in Callers |-> None]
    /\ ncalls = [c \in Callers |-> 0]
    /\ ret = [c \in Callers |-> NoOutcome]
    /\ task = [c \in Callers |-> NoTask]
    /\ fut = [t \in SyncThreads |-> NoFuture]
    /\ engine = [c \in Callers |-> EngineIdle]

CanCall(c) == pc[c] \in {"idle", "returned", "raised"} /\ ncalls[c] < MaxCalls

\* _start_background_loop: the daemon thread makes the loop current and runs it forever.
StartBackgroundLoop ==
    /\ ~loopRunning
    /\ loopRunning' = TRUE
    /\ UNCHANGED <<selfLoop, loops, pc, method, req, ncalls, ret, task, fut, engine>>

\* Faulty variant of SubmitLoop: chat() runs its coroutine on a loop of the calling
\* thread (as asyncio.run would) instead of the background loop.
SubmitLoopOfCaller(t) == UserLoop

\* The loop chat() hands its coroutine to: self._loop.
SubmitLoop(t) == selfLoop

\* Faulty variant of TaskSlot: the future is kept in one attribute of the ChatModel
\* that all invocations share.
TaskSlotShared(t) == "t1"

\* The future chat() waits on: the local variable `task` of this invocation.
TaskSlot(t) == t

\* ChatModel.chat, up to the blocking task.result(): the coroutine achat(...) is
\* scheduled on self._loop and the caller blocks on the returned future.
ChatCall(t, r) ==
    /\ t \in SyncThreads
    /\ CanCall(t)
    /\ pc' = [pc EXCEPT ![t] = "blocked"]
    /\ method' = [method EXCEPT ![t] = "chat"]
    /\ req' = [req EXCEPT ![t] = r]
    /\ ncalls' = [ncalls EXCEPT ![t] = @ + 1]
    /\ ret' = [ret EXCEPT ![t] = NoOutcome]
    /\ task' = [task EXCEPT ![t] = [st |-> "queued", loop |-> SubmitLoop(t), ranOn |-> None,
                                    slot |-> TaskSlot(t), engineCalls |-> 0]]
    /\ fut' = [fut EXCEPT ![TaskSlot(t)] = NoFuture]
    /\ engine' = [engine EXCEPT ![t] = EngineIdle]
    /\ UNCHANGED <<selfLoop, loops, loopRunning>>

\* The background loop starts a queued achat coroutine: it runs up to the await of
\* self.engine.chat(...), which hands the request to the engine.
LoopRunAchat(t) ==
    /\ t \in SyncThreads
    /\ loopRunning
    /\ task[t].st = "queued"
    /\ task[t].loop = selfLoop
    /\ task' = [task EXCEPT ![t].st = "awaiting", ![t].ranOn = BgThread,
                            ![t].engineCalls = @ + 1]
    /\ engine' = [engine EXCEPT ![t] = [st |-> "running", req |-> req[t], out |-> NoOutcome]]
    /\ UNCHANGED <<selfLoop, loops, loopRunning, pc, method, req, ncalls, ret, fut>>

\* ChatModel.achat awaited directly by a coroutine of the user's own loop.
AchatCall(a, r) ==
    /\ a \in AsyncCallers
    /\ CanCall(a)
    /\ pc' = [pc EXCEPT ![a] = "awaiting"]
    /\ method' = [method EXCEPT ![a] = "achat"]
    /\ req' = [req EXCEPT ![a] = r]
    /\ ncalls' = [ncalls EXCEPT ![a] = @ + 1]
    /\ ret' = [ret EXCEPT ![a] = NoOutcome]
    /\ task' = [task EXCEPT ![a] = [st |-> "awaiting", loop |-> UserLoop, ranOn |-> a,
                                    slot |-> None, engineCalls |-> 1]]
    /\ engine' = [engine EXCEPT ![a] = [st |-> "running", req |-> r, out |-> NoOutcome]]
    /\ UNCHANGED <<selfLoop, loops, loopRunning, fut>>

\* The engine (BaseEngine.chat) ends a request it is serving.
EngineFinish(c, o) ==
    /\ engine[c].st = "running"
    /\ engine' = [engine EXCEPT ![c].st = "finished", ![c].out = o]
    /\ UNCHANGED <<selfLoop, loops, loopRunning, pc, method, req, ncalls, ret, task, fut>>

\* Faulty variant of AchatOutcome: the wrapper catches the engine's exception and
\* returns an empty list.
AchatOutcomeSwallow(o) == IF o.kind = "exc" THEN Ok(<<>>) ELSE o

\* Faulty variant of AchatOutcome: the wrapper keeps only the first Response.
AchatOutcomeFirst(o) == IF o.kind = "ok" /\ Len(o.val) > 1 THEN Ok(<<Head(o.val)>>) ELSE o

\* ChatModel.achat: `return await self.engine.chat(...)`.
AchatOutcome(o) == o

\* The achat coroutine resumes when the engine is done and ends with the same
\* outcome: for chat() that completes the future, for a direct awaiter it is
\* what the await gives.
AchatResume(c) ==
    /\ task[c].st = "awaiting"
    /\ engine[c].st = "finished"
    /\ task' = [task EXCEPT ![c].st = "done"]
    /\ IF c \in SyncThreads
         THEN /\ fut' = [fut EXCEPT ![task[c].slot] =
                           [done |-> TRUE, outcome |-> AchatOutcome(engine[c].out), by |-> c]]
              /\ UNCHANGED <<pc, ret>>
         ELSE /\ pc' = [pc EXCEPT ![c] =
                           IF AchatOutcome(engine[c].out).kind = "ok" THEN "returned" ELSE "raised"]
              /\ ret' = [ret EXCEPT ![c] = AchatOutcome(engine[c].out)]
              /\ UNCHANGED fut
    /\ UNCHANGED <<selfLoop, loops, loopRunning, method, req, ncalls, engine>>

\* ChatModel.chat: task.result() returns the future's value or raises its exception.
ChatReturn(t) ==
    /\ t \in SyncThreads
    /\ pc[t] = "blocked"
    /\ fut[TaskSlot(t)].done
    /\ pc' = [pc EXCEPT ![t] = IF fut[TaskSlot(t)].outcome.kind = "ok" THEN "returned" ELSE "raised"]
    /\ ret' = [ret EXCEPT ![t] = fut[TaskSlot(t)].outcome]
    /\ UNCHANGED <<selfLoop, loops, loopRunning, method, req, ncalls, task, fut, engine>>

\* A call of a method the docstring lists and the class does not define:
\* attribute lookup on the instance raises AttributeError.
CallUndefined(c, m) ==
    /\ CanCall(c)
    /\ m \in (IF c \in SyncThreads THEN DocumentedSync ELSE DocumentedAsync) \ ChatModelMethods
    /\ pc' = [pc EXCEPT ![c] = "raised"]
    /\ method' = [method EXCEPT ![c] = m]
    /\ req' = [req EXCEPT ![c] = None]
    /\ ncalls' = [ncalls EXCEPT ![c] = @ + 1]
    /\ ret' = [ret EXCEPT ![c] = Exc(<<"AttributeError">>)]
    /\ task' = [task EXCEPT ![c] = NoTask]
    /\ engine' = [engine EXCEPT ![c] = EngineIdle]
    /\ UNCHANGED <<selfLoop, loops, loopRunning, fut>>

\* ------------------------------------------------------------------ run_exp
MaxTry == 3                     \* the default of run_exp's max_try argument
MaxTryValues == {0, 1, MaxTry}

RunExpIdle == [pc |-> "idle", max_try |-> MaxTry, distillCalls |-> 0,
               distillExc |-> <<>>, exc |-> <<>>]

\* run_exp, lines 22-28: the router, clients, arguments, question/answer pairs
\* and the Distiller are built, then distiller.distill() is awaited.
RunExpCall(m) ==
    /\ runExp.pc = "idle"
    /\ runExp' = [runExp EXCEPT !.pc = "awaiting", !.max_try = m, !.distillCalls = @ + 1]

\* distiller.distill() returns: run_exp returns None.
DistillReturn ==
    /\ runExp.pc = "awaiting"
    /\ runExp' = [runExp EXCEPT !.pc = "done"]

\* distiller.distill() raises: nothing in run_exp catches it.
DistillRaise(e) ==
    /\ runExp.pc = "awaiting"
    /\ runExp' = [runExp EXCEPT !.pc = "failed", !.distillExc = e, !.exc = e]

\* ------------------------------------------------------------------ VllmEngine
\* Optional values: <<>> is Python's None, <<v>> the value v.
PyNone == <<>>
Some(v) == <<v>>
Falsy(x) == x = PyNone \/ x = Some(0)
\* Python's `a or b`.
PyOr(a, b) == IF Falsy(a) THEN b ELSE a
\* dict.pop(key, default) on the keyword arguments.
Pop(kw, key, default) == IF key \in DOMAIN kw THEN kw[key] ELSE default

OnePointZero == 10              \* the literal 1.0 of `... or 1.0`
DefaultMaxNewTokens == 4096     \* input_kwargs.pop("max_new_tokens", 4096)
DefaultNumReturnSequences == 1  \* input_kwargs.pop("num_return_sequences", 1)

Nums == 0..MaxNum
OptNums == {PyNone} \cup {Some(v) : v \in Nums}
SamplingKeys == {"temperature", "top_p", "top_k", "repetition_penalty"}

\* Faulty variant of Resolve: the per-call value is taken only when it is truthy, so
\* an explicit 0 falls back to the configured value.
ResolveTruthy(kw, ga, key) ==
    IF ~Falsy(Pop(kw, key, PyNone)) THEN Pop(kw, key, PyNone) ELSE ga[key]

\* `x if x is not None else self.generating_args[key]`, x = input_kwargs.pop(key, None).
Resolve(kw, ga, key) ==
    IF Pop(kw, key, PyNone) # PyNone THEN Pop(kw, key, PyNone) ELSE ga[key]

\* max_new_tokens as popped, and whether `if max_new_tokens:` binds max_tokens.
MaxNewTokens(kw) == Pop(kw, "max_new_tokens", Some(DefaultMaxNewTokens))
MaxTokensBound(kw) == ~Falsy(MaxNewTokens(kw))

\* The SamplingParams _generate builds (stop, stop_token_ids and
\* skip_special_tokens are handed over as they are and are left out).
SamplingParamsOf(kw, ga) ==
    [n |-> Pop(kw, "num_return_sequences", Some(DefaultNumReturnSequences)),
     repetition_penalty |-> PyOr(Resolve(kw, ga, "repetition_penalty"), Some(OnePointZero)),
     temperature |-> Resolve(kw, ga, "temperature"),
     top_p |-> PyOr(Resolve(kw, ga, "top_p"), Some(OnePointZero)),
     top_k |-> Resolve(kw, ga, "top_k"),
     max_tokens |-> MaxNewTokens(kw)]

\* The engine's outputs. A RequestOutput carries the prompt token ids and one
\* CompletionOutput per returned sequence; token ids are sequences of "tok".
Chars == {"a", "b"}
SeqsUpTo(S, k) == UNION {[1..i -> S] : i \in 0..k}
Texts == SeqsUpTo(Chars, MaxTextLen)
TokenSeqs == SeqsUpTo({"tok"}, MaxTok)
PromptSeqs == SeqsUpTo({"tok"}, MaxPrompt)
FinishReasons == {"None", "stop", "length"}

\* --- VllmEngine._generate (lines 96-155). prompt_ids and multi_modal_data
\* (line 150) are free names of the function: the file binds neither, so the
\* lookup raises NameError unless the module namespace holds them when the
\* call is made. Both outcomes are modelled.
GenerateOk ==
    /\ vpc = "start"
    /\ MaxTokensBound(kwargs)
    /\ sampling' = <<SamplingParamsOf(kwargs, genArgs)>>
    /\ vpc' = "generating"
    /\ UNCHANGED <<kwargs, genArgs, nYielded, lastYielded, final_output, results, raised,
                   generated_text, deltas, extending>>

GenerateRaise ==
    /\ vpc = "start"
    /\ raised' = IF MaxTokensBound(kwargs) THEN "NameError" ELSE "UnboundLocalError"
    /\ sampling' = IF MaxTokensBound(kwargs) THEN <<SamplingParamsOf(kwargs, genArgs)>> ELSE <<>>
    /\ vpc' = "raised"
    /\ UNCHANGED <<kwargs, genArgs, nYielded, lastYielded, final_output, results,
                   generated_text, deltas, extending>>

InitEngineRest ==
    /\ sampling = <<>>
    /\ nYielded = 0
    /\ lastYielded = <<>>
    /\ final_output = <<>>
    /\ results = <<>>
    /\ raised = None
    /\ generated_text = <<>>
    /\ deltas = <<>>
    /\ extending = TRUE

InitEngineUnused ==
    /\ vpc = "unused"
    /\ kwargs = <<>>
    /\ genArgs = <<>>
    /\ InitEngineRest

\* ------------------------------------------------------------------ Spec
Init == InitFacade /\ runExp = RunExpIdle /\ InitEngineUnused

FacadeOnly == UNCHANGED runExp /\ UNCHANGED engineVars
RunExpOnly == UNCHANGED facadeVars /\ UNCHANGED engineVars

Next ==
    \/ StartBackgroundLoop /\ FacadeOnly
    \/ (\E t \in SyncThreads, r \in Requests : ChatCall(t, r)) /\ FacadeOnly
    \/ (\E t \in SyncThreads : LoopRunAchat(t)) /\ FacadeOnly
    \/ (\E a \in AsyncCallers, r \in Requests : AchatCall(a, r)) /\ FacadeOnly
    \/ (\E c \in Callers, o \in EngineOutcomes : EngineFinish(c, o)) /\ FacadeOnly
    \/ (\E c \in Callers : AchatResume(c)) /\ FacadeOnly
    \/ (\E t \in SyncThreads : ChatReturn(t)) /\ FacadeOnly
    \/ (\E c \in Callers, m \in DocumentedSync \cup DocumentedAsync : CallUndefined(c, m))
          /\ FacadeOnly

Spec == Init /\ [][Next]_vars

\* ------------------------------------------------------------------ SpecErr
\* Error paths: one sync caller, one async caller, and run_exp.
ErrCallers == {"t1"} \cup AsyncCallers

NextErr ==
    \/ StartBackgroundLoop /\ FacadeOnly
    \/ (\E r \in Requests : ChatCall("t1", r)) /\ FacadeOnly
    \/ LoopRunAchat("t1") /\ FacadeOnly
    \/ (\E a \in AsyncCallers, r \in Requests : AchatCall(a, r)) /\ FacadeOnly
    \/ (\E c \in ErrCallers, o \in EngineOutcomes : EngineFinish(c, o)) /\ FacadeOnly
    \/ (\E c \in ErrCallers : AchatResume(c)) /\ FacadeOnly
    \/ ChatReturn("t1") /\ FacadeOnly
    \/ (\E c \in ErrCallers, m \in DocumentedSync \cup DocumentedAsync : CallUndefined(c, m))
          /\ FacadeOnly
    \/ (\E m \in MaxTryValues : RunExpCall(m)) /\ RunExpOnly
    \/ DistillReturn /\ RunExpOnly
    \/ (\E e \in Exceptions : DistillRaise(e)) /\ RunExpOnly

SpecErr == Init /\ [][NextErr]_vars

\* ------------------------------------------------------------------ SpecSampling
\* One call of _generate for every combination of per-call values and
\* configured generating_args.
SamplingKwargs ==
    UNION {[SamplingKeys \cup K -> OptNums] : K \in SUBSET {"max_new_tokens"}}
SamplingGenArgs == [SamplingKeys -> OptNums]

InitSampling ==
    /\ InitFacade /\ runExp = RunExpIdle
    /\ vpc = "start"
    /\ kwargs \in SamplingKwargs
    /\ genArgs \in SamplingGenArgs
    /\ InitEngineRest

EngineOnly == UNCHANGED facadeVars /\ UNCHANGED runExp

NextSampling ==
    \/ GenerateOk /\ EngineOnly
    \/ GenerateRaise /\ EngineOnly

SpecSampling == InitSampling /\ [][NextSampling]_vars

\* C8: each of temperature, top_p, top_k and repetition_penalty the engine is
\* handed is the per-call value when one was passed (not None) and the
\* configured value otherwise, except that a resolved top_p or
\* repetition_penalty of 0 or None becomes 1.0: the engine never gets top_p = 0
\* or repetition_penalty = 0, and an explicit temperature of 0 stays 0.
Passed(key) == key \in DOMAIN kwargs /\ kwargs[key] # PyNone
Resolved(key) == IF Passed(key) THEN kwargs[key] ELSE genArgs[key]
Handed == sampling[1]

C8_SamplingResolution ==
    vpc = "generating" =>
        /\ Handed.temperature = Resolved("temperature")
        /\ Handed.top_k = Resolved("top_k")
        /\ \A key \in {"top_p", "repetition_penalty"} :
              /\ Resolved(key) \in {PyNone, Some(0)} => Handed[key] = Some(OnePointZero)
              /\ Resolved(key) \notin {PyNone, Some(0)} => Handed[key] = Resolved(key)
              /\ Handed[key] \notin {PyNone, Some(0)}
        /\ kwargs["temperature"] = Some(0) => Handed.temperature = Some(0)

C8_Witness ==
    /\ vpc = "generating"
    /\ kwargs["temperature"] = Some(0) /\ genArgs["temperature"] = Some(1)
    /\ kwargs["top_p"] = Some(0) /\ genArgs["top_p"] = Some(1)
    /\ kwargs["repetition_penalty"] = PyNone /\ genArgs["repetition_penalty"] = PyNone
    /\ kwargs["top_k"] = PyNone /\ genArgs["top_k"] = Some(1)
    /\ Handed.temperature = Some(0)
    /\ Handed.top_p = Some(OnePointZero)
    /\ Handed.repetition_penalty = Some(OnePointZero)
    /\ Handed.top_k = Some(1)

\* ------------------------------------------------------------------ SpecChat
\* The keyword arguments and configuration of the chat and stream_chat runs.
CallKwargs ==
    {kw \in UNION {[K -> {Some(0), Some(1), Some(2)}] :
                      K \in SUBSET {"max_new_tokens", "num_return_sequences"}} :
        /\ "max_new_tokens" \in DOMAIN kw => kw["max_new_tokens"] \in {Some(0), Some(2)}
        /\ "num_return_sequences" \in DOMAIN kw => kw["num_return_sequences"] \in {Some(1), Some(2)}}
ConfiguredGenArgs == [key \in SamplingKeys |-> Some(1)]

\* What the engine's generator may yield for a request of n sequences.
ChatTexts == SeqsUpTo({"a"}, 1)
Completions == [text : ChatTexts, token_ids : TokenSeqs, finish_reason : FinishReasons]
RequestOutputs(n) == [prompt_token_ids : PromptSeqs, outputs : [1..n -> Completions]]
Yieldable == IF vpc = "generating" THEN RequestOutputs(sampling[1].n[1]) ELSE {}

\* The Response records chat builds from an output (lines 173-184).
ResponsesOf(fo) ==
    [i \in 1..Len(fo.outputs) |->
        [response_text |-> fo.outputs[i].text,
         response_length |-> Len(fo.outputs[i].token_ids),
         prompt_length |-> Len(fo.prompt_token_ids),
         finish_reason |-> fo.outputs[i].finish_reason]]

InitChat ==
    /\ InitFacade /\ runExp = RunExpIdle
    /\ vpc = "start"
    /\ kwargs \in CallKwargs
    /\ genArgs = ConfiguredGenArgs
    /\ InitEngineRest

\* chat: one round of `async for request_output in generator` (lines 170-171).
ChatYield(ro) ==
    /\ vpc = "generating"
    /\ nYielded < MaxOutputs
    /\ final_output' = <<ro>>
    /\ lastYielded' = <<ro>>
    /\ nYielded' = nYielded + 1
    /\ UNCHANGED <<vpc, kwargs, genArgs, sampling, results, raised, generated_text, deltas,
                   extending>>

\* chat: the generator is exhausted and the results are built (lines 173-184);
\* with final_output still None, final_output.outputs raises AttributeError.
ChatFinish ==
    /\ vpc = "generating"
    /\ IF final_output = <<>>
         THEN /\ raised' = "AttributeError"
              /\ vpc' = "raised"
              /\ UNCHANGED results
         ELSE /\ results' = ResponsesOf(final_output[1])
              /\ vpc' = "returned"
              /\ UNCHANGED raised
    /\ UNCHANGED <<kwargs, genArgs, sampling, nYielded, lastYielded, final_output,
                   generated_text, deltas, extending>>

NextChat ==
    \/ GenerateOk /\ EngineOnly
    \/ GenerateRaise /\ EngineOnly
    \/ (\E ro \in Yieldable : ChatYield(ro)) /\ EngineOnly
    \/ ChatFinish /\ EngineOnly

SpecChat == InitChat /\ [][NextChat]_vars

\* C5: chat returns one Response per completion of the last output the
\* generator yielded, in order, with its text, its number of token ids, the
\* number of prompt token ids and its finish reason; earlier outputs do not
\* matter; and whenever the generator terminates, chat returns a result.
GenerateFailed == raised \in {"NameError", "UnboundLocalError"}

C5_ResponsePerCompletion ==
    (vpc \in {"returned", "raised"} /\ ~GenerateFailed) =>
        /\ vpc = "returned"
        /\ lastYielded # <<>>
        /\ Len(results) = Len(lastYielded[1].outputs)
        /\ \A i \in 1..Len(results) :
              /\ results[i].response_text = lastYielded[1].outputs[i].text
              /\ results[i].response_length = Len(lastYielded[1].outputs[i].token_ids)
              /\ results[i].prompt_length = Len(lastYielded[1].prompt_token_ids)
              /\ results[i].finish_reason = lastYielded[1].outputs[i].finish_reason

\* ------------------------------------------------------------------ SpecStream
IsPrefix(p, t) == Len(p) <= Len(t) /\ SubSeq(t, 1, Len(p)) = p

RECURSIVE Concat(_)
Concat(ds) == IF ds = <<>> THEN <<>> ELSE Head(ds) \o Concat(Tail(ds))

\* What the generator may yield to stream_chat: any text in outputs[0], and a
\* fixed text in the other completions.
StreamOutputs(n) ==
    {[prompt_token_ids |-> <<>>,
      outputs |-> [i \in 1..n |-> [text |-> IF i = 1 THEN t ELSE <<"b">>,
                                   token_ids |-> <<>>, finish_reason |-> "None"]]] :
        t \in Texts}

\* Faulty variant of DeltaText: the slice starts one character late.
DeltaTextLate(generated, text) == SubSeq(text, Len(generated) + 2, Len(text))

\* text[len(generated_text):]
DeltaText(generated, text) == SubSeq(text, Len(generated) + 1, Len(text))

StreamYieldable == IF vpc = "generating" THEN StreamOutputs(sampling[1].n[1]) ELSE {}

LastText == IF lastYielded = <<>> THEN <<>> ELSE lastYielded[1].outputs[1].text

InitStream ==
    /\ InitFacade /\ runExp = RunExpIdle
    /\ vpc = "start"
    /\ kwargs \in CallKwargs
    /\ genArgs = ConfiguredGenArgs
    /\ InitEngineRest

\* stream_chat: one round of `async for result in generator` (lines 199-202).
StreamYield(ro) ==
    /\ vpc = "generating"
    /\ nYielded < MaxOutputs
    /\ deltas' = Append(deltas, DeltaText(generated_text, ro.outputs[1].text))
    /\ generated_text' = ro.outputs[1].text
    /\ extending' = (extending /\ IsPrefix(LastText, ro.outputs[1].text))
    /\ lastYielded' = <<ro>>
    /\ nYielded' = nYielded + 1
    /\ UNCHANGED <<vpc, kwargs, genArgs, sampling, final_output, results, raised>>

\* stream_chat: the generator is exhausted and the stream ends.
StreamEnd ==
    /\ vpc = "generating"
    /\ vpc' = "ended"
    /\ UNCHANGED <<kwargs, genArgs, sampling, nYielded, lastYielded, final_output, results,
                   raised, generated_text, deltas, extending>>

NextStream ==
    \/ GenerateOk /\ EngineOnly
    \/ GenerateRaise /\ EngineOnly
    \/ (\E ro \in StreamYieldable : StreamYield(ro)) /\ EngineOnly
    \/ StreamEnd /\ EngineOnly

SpecStream == InitStream /\ [][NextStream]_vars

\* C7: stream_chat yields one delta per output of the generator, and as long
\* as every output's outputs[0].text extends the one before, the deltas
\* yielded so far concatenate to the most recent text; so at the end of the
\* stream they concatenate to the final text.
C7_DeltasConcatenate ==
    /\ Len(deltas) = nYielded
    /\ extending => Concat(deltas) = LastText
    /\ (vpc = "ended" /\ extending) => Concat(deltas) = generated_text

C7_Witness ==
    /\ vpc = "ended"
    /\ extending
    /\ nYielded = 3
    /\ deltas = <<<<"a">>, <<>>, <<"b">>>>
    /\ LastText = <<"a", "b">>

\* ------------------------------------------------------------------ claims on the facade
CallOver(c) == pc[c] \in {"returned", "raised"}
Served(c) == method[c] \in {"chat", "achat"} /\ CallOver(c)

\* C1: the facade is a pass-through. A chat() or achat() call that returns gives
\* exactly the list of Responses the engine produced for the same request (same
\* elements, same order), and every list the engine produces is returned.
C1_PassThrough ==
    \A c \in Callers :
        /\ (method[c] \in {"chat", "achat"} /\ pc[c] = "returned") =>
              /\ engine[c].st = "finished"
              /\ engine[c].out.kind = "ok"
              /\ engine[c].req = req[c]
              /\ ret[c].val = engine[c].out.val
        /\ (Served(c) /\ engine[c].out.kind = "ok") =>
              /\ pc[c] = "returned"
              /\ ret[c] = engine[c].out

C1_Witness ==
    /\ method["t1"] = "chat" /\ pc["t1"] = "returned"
    /\ ret["t1"] = Ok(<<"r1", "r2">>) /\ engine["t1"].out = Ok(<<"r1", "r2">>)
    /\ method["a1"] = "achat" /\ pc["a1"] = "returned"
    /\ ret["a1"] = Ok(<<"r1", "r2">>) /\ engine["a1"].req = req["a1"]

\* C2: the ChatModel owns one event loop, the one created in __init__, run on
\* the background thread. Every chat() coroutine is submitted to that loop and
\* runs only on the background thread, only once that loop runs; a caller
\* leaves chat() only when its future is done; the loop is never stopped or
\* replaced.
C2_LoopInv ==
    /\ selfLoop = InitLoop
    /\ loops = {InitLoop}
    /\ \A t \in SyncThreads :
          /\ task[t].st # "none" =>
                /\ task[t].loop = selfLoop
                /\ task[t].ranOn \in {None, BgThread}
          /\ task[t].st \in {"awaiting", "done"} =>
                /\ loopRunning
                /\ task[t].ranOn = BgThread
          /\ (method[t] = "chat" /\ CallOver(t)) => fut[TaskSlot(t)].done

C2_LoopStep ==
    /\ loopRunning => loopRunning'
    /\ selfLoop' = selfLoop
    /\ \A t \in SyncThreads :
          (pc[t] = "blocked" /\ pc'[t] # "blocked") => fut[TaskSlot(t)].done

C2_OneBackgroundLoop == [](C2_LoopInv) /\ [][C2_LoopStep]_vars

C2_Witness ==
    /\ ncalls["t1"] = MaxCalls /\ method["t1"] = "chat" /\ pc["t1"] = "returned"
    /\ ncalls["t2"] >= 1 /\ method["t2"] = "chat" /\ pc["t2"] = "raised"
    /\ task["t1"].loop = InitLoop /\ task["t1"].ranOn = BgThread
    /\ task["t2"].loop = InitLoop /\ task["t2"].ranOn = BgThread

\* C3: overlapping chat() calls are neither serialised, limited nor cancelled:
\* a thread that may call can always submit, a queued coroutine can always be
\* started by the running loop whatever the other callers do, a request handed
\* to the engine stays with it; and each caller gets the outcome of its own
\* request, from a future its own coroutine completed.
C3_OwnResult ==
    \A t \in SyncThreads :
        /\ (method[t] = "chat" /\ CallOver(t)) =>
              /\ fut[TaskSlot(t)].by = t
              /\ engine[t].st = "finished"
              /\ engine[t].req = req[t]
              /\ ret[t] = engine[t].out
        /\ CanCall(t) => \A r \in Requests : ENABLED ChatCall(t, r)
        /\ (task[t].st = "queued" /\ loopRunning) => ENABLED LoopRunAchat(t)
        /\ task[t].st = "awaiting" => engine[t].st \in {"running", "finished"}

C3_Witness ==
    /\ pc["t1"] = "blocked" /\ pc["t2"] = "blocked"
    /\ engine["t1"].st = "finished" /\ engine["t2"].st = "finished"
    /\ req["t1"] # req["t2"]
    /\ engine["t1"].out # engine["t2"].out
    /\ engine["a1"].st = "running"

\* C4: an exception the engine raises reaches the caller of chat() (through
\* the future) and the awaiter of achat() unchanged; the wrapper asks the engine
\* once per call and never substitutes a result. run_exp awaits the
\* distillation once and fails with the distillation's exception, whatever
\* max_try is.
C4_ErrorsPropagate ==
    /\ \A c \in Callers :
          /\ task[c].engineCalls <= 1
          /\ (c \in SyncThreads /\ task[c].st = "done" /\ engine[c].out.kind = "exc") =>
                fut[TaskSlot(c)].outcome = engine[c].out
          /\ (Served(c) /\ engine[c].out.kind = "exc") =>
                /\ pc[c] = "raised"
                /\ ret[c] = engine[c].out
          /\ (Served(c) /\ pc[c] = "raised") => engine[c].out = ret[c]
    /\ runExp.distillCalls <= 1
    /\ runExp.pc \in {"awaiting", "done", "failed"} => runExp.distillCalls = 1
    /\ runExp.pc = "failed" => runExp.exc = runExp.distillExc

C4_Witness ==
    /\ method["t1"] = "chat" /\ pc["t1"] = "raised" /\ ret["t1"] = Exc(<<"ValueError">>)
    /\ method["a1"] = "achat" /\ pc["a1"] = "raised" /\ ret["a1"] = Exc(<<"RuntimeError">>)
    /\ runExp.pc = "failed" /\ runExp.max_try = MaxTry /\ runExp.exc = <<"ValueError">>

\* C6: every method the class documents, sync or async, can be called and is
\* served by the engine, the sync method giving what its async counterpart
\* gives.
C6_DocumentedMethodsServed ==
    \A c \in Callers :
        (method[c] \in DocumentedSync \cup DocumentedAsync /\ CallOver(c)) =>
            /\ method[c] \in ChatModelMethods
            /\ AsyncOf(method[c]) \in ChatModelMethods
            /\ engine[c].st = "finished"
            /\ ret[c] = engine[c].out

====
